---- MODULE Spec2Model ----
(***************************************************************************)
(* State-machine model of the resume analyzer (src/App.tsx, second App     *)
(* component, lines 361-683) and of the analysis client                     *)
(* (src/unnamed/part_001 and src/services/geminiService.ts).                *)
(*                                                                         *)
(* One action is one synchronous segment of a handler: the code that runs  *)
(* between two awaits.  React commits a render after each segment that set *)
(* state; the parsing effect of that commit (App.tsx 376-402) runs before  *)
(* any later event, which the flag effectPending enforces.                 *)
(***************************************************************************)
EXTENDS Integers, Sequences, FiniteSets, Bags, TLC

VARIABLES
    resumes,              \* useState<ResumeFile[]>            App.tsx:362
    jobDescriptionText,   \* useState<string>                  App.tsx:364
    analysisResults,      \* useState<{name, result}[]>        App.tsx:366
    loading,              \* useState<boolean>                 App.tsx:367
    error,                \* useState<string | null>           App.tsx:369
    effectPending,        \* a commit changed `resumes`; its effect has not run yet
    parseRuns,            \* bag of processBatch() invocations suspended at a file read
    analyzeRuns,          \* set of handleAnalyze() invocations suspended at Promise.all
    finishedRun,          \* history: the last handleAnalyze() invocation that returned
    everReady,            \* history: ids of present records that were set to ready
    userOps,              \* number of user inputs so far (bounded)
    jobDescriptionFile,   \* useState<File | null>            App.tsx:363
    jdReads,              \* bag of handleJdFileRead() invocations suspended at the read
    jdFetch,              \* the handleJdUrlAdd() invocation suspended at fetch, if any
    jdTyped,              \* history: the file handle was last cleared by typing
    urlRun,               \* the handleUrlsAdd() invocation suspended at a fetch, if any
    surfaced,             \* history: the last fetch of a URL ingestion that settled
    response,             \* analysis client: the model reply under validation
    outcome               \* analysis client: what analyzeResume did with it

vars == <<resumes, jobDescriptionText, analysisResults, loading, error,
          effectPending, parseRuns, analyzeRuns, finishedRun, everReady, userOps,
          jobDescriptionFile, jdReads, jdFetch, jdTyped, urlRun, surfaced,
          response, outcome>>

\* the job-description sources and the URL ingestion
ingestVars == <<jobDescriptionFile, jdReads, jdFetch, jdTyped, urlRun, surfaced>>

appVars == <<resumes, jobDescriptionText, analysisResults, loading, error,
             effectPending, parseRuns, analyzeRuns, finishedRun, everReady, userOps>>

clientVars == <<response, outcome>>

(***************************************************************************)
(* Bounds of the model and program constants.                              *)
(***************************************************************************)
MaxFiles == 2        \* distinct file identities the user can add
MaxUserOps == 3      \* user inputs (add, remove, clear, edit) per behaviour
MaxAddLen == 2       \* files in one addResumeFiles call
MaxReady == 11       \* most ready records at the start of an analyze-only behaviour

BATCH_SIZE == 5

Undefined == "undefined"
Null == "null"

Min(a, b) == IF a < b THEN a ELSE b

(***************************************************************************)
(* Files.  A File is its identity (name-size-lastModified collapse to one  *)
(* number) and what reading it yields: a text, or a read failure.          *)
(***************************************************************************)
FileIds == 1..MaxFiles
Corrupt == "corrupt"
FileContents == {"a", "b", Corrupt}
Files == [id : FileIds, content : FileContents]

FileName(file) == "file" \o ToString(file.id)

\* readFileAsText / readPdfAsText: resolve with the text or reject with an Error
readFileAsText(file) ==
    IF file.content = Corrupt
    THEN [ok |-> FALSE, text |-> "", message |-> "Error reading file: " \o FileName(file)]
    ELSE [ok |-> TRUE, text |-> file.content, message |-> ""]

\* one entry of addResumeFiles' newResumeFiles
NewResumeFile(file) ==
    [id |-> file.id, file |-> file, status |-> "queued", text |-> "",
     candidateName |-> FileName(file), error |-> Undefined]

\* { ...r, ...status }
Merge(r, patch) ==
    [f \in DOMAIN r |-> IF f \in DOMAIN patch THEN patch[f] ELSE r[f]]

\* an update that inserts the record when no record has the id
UpsertResumeStatus(prev, id, patch) ==
    IF \E k \in DOMAIN prev : prev[k].id = id
    THEN [k \in DOMAIN prev |-> IF prev[k].id = id THEN Merge(prev[k], patch) ELSE prev[k]]
    ELSE Append(prev, Merge(NewResumeFile([id |-> id, content |-> ""]), patch))

\* setResumes(prev => prev.map(r => r.id === id ? { ...r, ...status } : r))
updateResumeStatus(prev, id, patch) ==
    [k \in DOMAIN prev |-> IF prev[k].id = id THEN Merge(prev[k], patch) ELSE prev[k]]

HasId(rs, id) == \E k \in DOMAIN rs : rs[k].id = id

IdsOf(rs) == {rs[k].id : k \in DOMAIN rs}

(***************************************************************************)
(* Parsing effect, App.tsx 376-402.  An invocation of processBatch keeps   *)
(* the `resumes` array of the render it was created in (the closure) and   *)
(* the position in its batch of the record whose file it is reading.       *)
(***************************************************************************)
\* resumes.filter(r => r.status === 'queued')
queuedResumes(rs) == SelectSeq(rs, LAMBDA r : r.status = "queued")

\* queuedResumes.slice(0, BATCH_SIZE)
ParseBatch(rs) == SubSeq(queuedResumes(rs), 1, Min(BATCH_SIZE, Len(queuedResumes(rs))))

\* resumes.some(r => r.id !== resume.id && r.text && r.text === text), on the closure
isDuplicate(snap, resume, text) ==
    \E k \in DOMAIN snap :
        snap[k].id # resume.id /\ snap[k].text # "" /\ snap[k].text = text

\* a processBatch without its catch: the record of a failed read is left as it is
ReadFailureEscapes(snap, resume) ==
    LET read == readFileAsText(resume.file) IN
    IF ~read.ok THEN [status |-> "parsing"]
    ELSE IF isDuplicate(snap, resume, read.text)
         THEN [status |-> "error", error |-> "Duplicate content detected."]
         ELSE [text |-> read.text, status |-> "ready"]

\* the update processBatch makes when the read of `resume` settles (App.tsx 385-398)
ParseOutcome(snap, resume) ==
    LET read == readFileAsText(resume.file) IN
    IF ~read.ok THEN [status |-> "error", error |-> read.message]
    ELSE IF isDuplicate(snap, resume, read.text)
         THEN [status |-> "error", error |-> "Duplicate content detected."]
         ELSE [text |-> read.text, status |-> "ready"]

NoteReady(rs, id, patch) ==
    IF patch.status = "ready" /\ HasId(rs, id) THEN everReady \cup {id} ELSE everReady

\* useEffect(() => {...}, [resumes]): runs once after every commit that changed resumes
ParseEffect ==
    /\ effectPending
    /\ IF Len(queuedResumes(resumes)) = 0
       THEN /\ effectPending' = FALSE
            /\ UNCHANGED <<resumes, parseRuns>>
       ELSE /\ resumes' = updateResumeStatus(resumes, ParseBatch(resumes)[1].id,
                                             [status |-> "parsing"])
            /\ parseRuns' = parseRuns (+) SetToBag({[snap |-> resumes, i |-> 1]})
            /\ effectPending' = TRUE
    /\ UNCHANGED <<jobDescriptionText, analysisResults, loading, error, analyzeRuns,
                   finishedRun, everReady, userOps, response, outcome>>
    /\ UNCHANGED ingestVars

\* the awaited read of a processBatch invocation settles; the loop goes on to the
\* next record of its batch or ends
ParseSettle(run) ==
    /\ ~effectPending
    /\ BagIn(run, parseRuns)
    /\ LET batch == ParseBatch(run.snap)
           resume == batch[run.i]
           patch == ParseOutcome(run.snap, resume)
           settled == updateResumeStatus(resumes, resume.id, patch)
       IN /\ everReady' = NoteReady(resumes, resume.id, patch)
          /\ IF run.i < Len(batch)
             THEN /\ resumes' = updateResumeStatus(settled, batch[run.i + 1].id,
                                                   [status |-> "parsing"])
                  /\ parseRuns' = (parseRuns (-) SetToBag({run}))
                                      (+) SetToBag({[run EXCEPT !.i = run.i + 1]})
             ELSE /\ resumes' = settled
                  /\ parseRuns' = parseRuns (-) SetToBag({run})
    /\ effectPending' = TRUE
    /\ UNCHANGED <<jobDescriptionText, analysisResults, loading, error, analyzeRuns,
                   finishedRun, userOps, response, outcome>>
    /\ UNCHANGED ingestVars

(***************************************************************************)
(* User actions on the record set, App.tsx 483-509.                        *)
(***************************************************************************)
\* one more input of the user, within the bound of the model
UserInput == userOps < MaxUserOps /\ userOps' = userOps + 1

\* the files of one drop or file-input change (InputCard.tsx disables the file
\* input while records are being parsed, but not the drop zone)
AddInputs == UNION {[1..n -> Files] : n \in 1..MaxAddLen}

addResumeFiles(filesToAdd) ==
    /\ ~effectPending
    /\ UserInput
    /\ LET fresh == SelectSeq(filesToAdd, LAMBDA f : ~HasId(resumes, f.id))
           newResumeFiles == [k \in DOMAIN fresh |-> NewResumeFile(fresh[k])]
       IN resumes' = resumes \o newResumeFiles
    /\ effectPending' = TRUE
    /\ UNCHANGED <<jobDescriptionText, analysisResults, loading, error, parseRuns,
                   analyzeRuns, finishedRun, everReady, response, outcome>>
    /\ UNCHANGED ingestVars

removeResume(id) ==
    /\ ~effectPending
    /\ UserInput
    /\ HasId(resumes, id)
    /\ resumes' = SelectSeq(resumes, LAMBDA r : r.id # id)
    /\ everReady' = everReady \ {id}
    /\ effectPending' = TRUE
    /\ UNCHANGED <<jobDescriptionText, analysisResults, loading, error, parseRuns,
                   analyzeRuns, finishedRun, response, outcome>>
    /\ UNCHANGED ingestVars

clearResumes ==
    /\ ~effectPending
    /\ UserInput
    /\ Len(resumes) > 0
    /\ resumes' = <<>>
    /\ everReady' = {}
    /\ effectPending' = TRUE
    /\ UNCHANGED <<jobDescriptionText, analysisResults, loading, error, parseRuns,
                   analyzeRuns, finishedRun, response, outcome>>
    /\ UNCHANGED ingestVars

(***************************************************************************)
(* Analysis client.  A JavaScript value of the parsed reply is a record   *)
(* of its typeof/Array.isArray class and its content; the items of an      *)
(* array are kept as the sequence of their typeof classes.                 *)
(***************************************************************************)
Undef == [type |-> "undefined", num |-> 0, str |-> "", items |-> <<>>]
Num(n) == [type |-> "number", num |-> n, str |-> "", items |-> <<>>]
Str(s) == [type |-> "string", num |-> 0, str |-> s, items |-> <<>>]
Arr(items) == [type |-> "array", num |-> 0, str |-> "", items |-> items]

NoBody ==
    [relevancyScore |-> Undef, recommendation |-> Undef, summary |-> Undef,
     pros |-> Undef, cons |-> Undef, redFlags |-> Undef, finalVerdict |-> Undef,
     interviewQuestions |-> Undef, candidateName |-> Undef]

\* replies of the remote model: a JSON object, or no parsable reply at all (network
\* error, empty text, JSON.parse throwing)
ReplyBodies ==
    [relevancyScore : {Undef, Num(80), Num(150), Str("80")},
     recommendation : {Undef, Str("Strong Hire"), Str("Consider"), Str("Reject"), Str("HIRE")},
     summary : {Str("s"), Num(1)},
     pros : {Arr(<<"string">>), Arr(<<"number">>), Str("p")},
     cons : {Arr(<<"string">>), Arr(<<"string", "number">>), Undef},
     redFlags : {Undef, Arr(<<>>), Arr(<<"string">>), Arr(<<"number">>)},
     finalVerdict : {Str("v"), Undef},
     interviewQuestions : {Undef, Arr(<<"string">>), Arr(<<"number">>), Str("q")},
     candidateName : {Undef, Str("Ann")}]

NoReply == [parsed |-> FALSE, body |-> NoBody]
Replies == {NoReply} \cup {[parsed |-> TRUE, body |-> b] : b \in ReplyBodies}

AnalysisFailedMessage ==
    "Failed to get analysis from AI. Please check the console for more details."

Fulfilled(value) == [status |-> "fulfilled", value |-> value, message |-> ""]
Rejected(message) == [status |-> "rejected", value |-> NoBody, message |-> message]
Pending == [status |-> "pending", value |-> NoBody, message |-> ""]

\* Array.isArray(x)
IsArray(v) == v.type = "array"

\* [...].includes(x)
Includes(literals, v) == v.type = "string" /\ v.str \in literals

\* the validation of src/unnamed/part_001, lines 189-200
Malformed(b) ==
    \/ b.relevancyScore.type # "number"
    \/ ~Includes({"Strong Hire", "Consider", "Reject"}, b.recommendation)
    \/ b.summary.type # "string"
    \/ ~IsArray(b.pros)
    \/ ~IsArray(b.cons)
    \/ ~IsArray(b.redFlags)
    \/ b.finalVerdict.type # "string"
    \/ ~IsArray(b.interviewQuestions)

\* analyzeResume of src/unnamed/part_001 (the client with redFlags and
\* interviewQuestions), from the reply on
analyzeResume(reply) ==
    IF ~reply.parsed \/ Malformed(reply.body)
    THEN Rejected(AnalysisFailedMessage)
    ELSE Fulfilled(reply.body)

\* the validation of src/services/geminiService.ts, lines 72-79
MalformedService(b) ==
    \/ b.relevancyScore.type # "number"
    \/ ~Includes({"HIRE", "CONSIDER", "DO NOT HIRE"}, b.recommendation)
    \/ b.summary.type # "string"
    \/ ~IsArray(b.pros)
    \/ ~IsArray(b.cons)
    \/ b.finalVerdict.type # "string"

\* analyzeResume of src/services/geminiService.ts
analyzeResumeService(reply) ==
    IF ~reply.parsed \/ MalformedService(reply.body)
    THEN Rejected(AnalysisFailedMessage)
    ELSE Fulfilled(reply.body)

NoOutcome == [version |-> "none", result |-> Pending]

\* one call of the client of part_001 on the reply
CallAnalyzeResume ==
    /\ outcome = NoOutcome
    /\ outcome' = [version |-> "part_001", result |-> analyzeResume(response)]
    /\ UNCHANGED <<response, appVars>>
    /\ UNCHANGED ingestVars

\* one call of the client of services/geminiService.ts on the reply
CallAnalyzeResumeService ==
    /\ outcome = NoOutcome
    /\ outcome' = [version |-> "services", result |-> analyzeResumeService(response)]
    /\ UNCHANGED <<response, appVars>>
    /\ UNCHANGED ingestVars

(***************************************************************************)
(* handleAnalyze, App.tsx 405-455.  An invocation keeps resumesToAnalyze   *)
(* and jobDescriptionText of the render it was created in, the offset i of *)
(* its for loop, and every call it has made so far: the position in        *)
(* resumesToAnalyze of the record, the loop offset of the batch, the two   *)
(* arguments, the id the settled promise carries, and the promise.  It     *)
(* awaits the promises of the batch at offset i.  A result keeps the id of *)
(* its record next to name and result, to state properties with.           *)
(***************************************************************************)
NoRun == [n |-> 0, calls |-> <<>>, returned |-> FALSE]

GoodReply ==
    [parsed |-> TRUE,
     body |-> [relevancyScore |-> Num(80), recommendation |-> Str("Consider"),
               summary |-> Str("s"), pros |-> Arr(<<"string">>),
               cons |-> Arr(<<"string">>), redFlags |-> Arr(<<>>),
               finalVerdict |-> Str("v"), interviewQuestions |-> Arr(<<"string">>),
               candidateName |-> Undef]]

MalformedReply == [GoodReply EXCEPT !.body.redFlags = Undef]

\* the replies the remote model gives to the calls of a run
RunReplies == {GoodReply, MalformedReply, NoReply}

\* a string-typed field of the reply as the string React state holds
AsString(v) == IF v.type = "string" THEN v.str ELSE Undefined

\* App.tsx 591-593
readyResumesCount == Len(SelectSeq(resumes, LAMBDA r : r.status \in {"ready", "done"}))
isProcessing == \E k \in DOMAIN resumes : resumes[k].status \in {"queued", "parsing"}

\* a control that stays enabled during a run
canAnalyzeWhileLoading ==
    readyResumesCount > 0 /\ jobDescriptionText # "" /\ ~isProcessing

\* App.tsx 593
canAnalyze ==
    readyResumesCount > 0 /\ jobDescriptionText # "" /\ ~isProcessing /\ ~loading

\* resumes.filter(r => r.status === 'ready')
resumesToAnalyze(rs) == SelectSeq(rs, LAMBDA r : r.status = "ready")

\* slice(i, i + BATCH_SIZE + 1): a batch that takes the first record of the next
BatchPositionsOverlapping(snap, i) ==
    [k \in 1..(Min(i + BATCH_SIZE + 1, Len(snap)) - i) |-> i + k]

\* the positions of resumesToAnalyze.slice(i, i + BATCH_SIZE)
BatchPositions(snap, i) ==
    [k \in 1..(Min(i + BATCH_SIZE, Len(snap)) - i) |-> i + k]

\* calls that read the job description of the current render
IssueBatchWithCurrentText(snap, jd, i) ==
    LET pos == BatchPositions(snap, i) IN
    [k \in DOMAIN pos |->
        [position |-> pos[k], offset |-> i, id |-> snap[pos[k]].id,
         resume |-> snap[pos[k]].text,
         jobDescription |-> jobDescriptionText, promise |-> Pending]]

\* batch.map(resume => analyzeResume(resume.text, jobDescriptionText)...): the calls
\* made for the batch at offset i, each with its arguments
IssueBatch(snap, jd, i) ==
    LET pos == BatchPositions(snap, i) IN
    [k \in DOMAIN pos |->
        [position |-> pos[k], offset |-> i, id |-> snap[pos[k]].id,
         resume |-> snap[pos[k]].text,
         jobDescription |-> jd, promise |-> Pending]]

\* Promise.race in place of Promise.all: resumes at the first promise settled
FirstSettled(batchCalls) ==
    \E k \in DOMAIN batchCalls : batchCalls[k].promise.status # "pending"

\* await Promise.all(batchPromises), every promise having a catch handler: resumes
\* when all of them have settled
BatchSettled(batchCalls) ==
    \A k \in DOMAIN batchCalls : batchCalls[k].promise.status # "pending"

\* promises without the catch handler: a rejection leaves the loop
LoopStopsOnRejection(snap, i, batchCalls) ==
    /\ i + BATCH_SIZE < Len(snap)
    /\ \A k \in DOMAIN batchCalls : batchCalls[k].promise.status # "rejected"

\* for (...; i < resumesToAnalyze.length; i += BATCH_SIZE): is there another batch
\* after the one at offset i has settled
LoopContinues(snap, i, batchCalls) == i + BATCH_SIZE < Len(snap)

\* setAnalysisResults(successfulResults): the batch replaces the list
ReplaceResults(prev, successfulResults) == successfulResults

\* setAnalysisResults(prev => [...successfulResults, ...prev])
PrependResults(prev, successfulResults) == successfulResults \o prev

\* setAnalysisResults(prev => [...prev, ...successfulResults])
AppendResults(prev, successfulResults) == prev \o successfulResults

RECURSIVE ApplyUpdates(_, _)
\* a sequence of updateResumeStatus calls, in call order
ApplyUpdates(rs, updates) ==
    IF Len(updates) = 0 THEN rs
    ELSE ApplyUpdates(updateResumeStatus(rs, Head(updates).id, Head(updates).patch),
                      Tail(updates))

\* a filter that never lets a rejected call through
OnlyFulfilled(batchCalls, status) ==
    SelectSeq(batchCalls, LAMBDA c : c.promise.status = status /\ status = "fulfilled")

\* settledResults.filter(r => r.status === ...)
WithStatus(batchCalls, status) ==
    SelectSeq(batchCalls, LAMBDA c : c.promise.status = status)

CallsAt(calls, i) == SelectSeq(calls, LAMBDA c : c.offset = i)

\* the button's onClick (enabled iff canAnalyze): App.tsx 405-431 up to the await
handleAnalyze ==
    /\ ~effectPending
    /\ canAnalyze
    /\ LET snap == resumesToAnalyze(resumes) IN
       IF Len(snap) = 0 \/ jobDescriptionText = ""
       THEN /\ error' = "Please provide at least one valid resume and a job description."
            /\ UNCHANGED <<resumes, analysisResults, loading, effectPending,
                           analyzeRuns, finishedRun>>
       ELSE /\ error' = Null
            /\ loading' = TRUE
            /\ analysisResults' = <<>>
            /\ resumes' = ApplyUpdates(resumes,
                             [k \in DOMAIN snap |->
                                 [id |-> snap[k].id, patch |-> [status |-> "analyzing"]]])
            /\ analyzeRuns' = analyzeRuns \cup
                   {[snap |-> snap, jd |-> jobDescriptionText, i |-> 0,
                     calls |-> IssueBatch(snap, jobDescriptionText, 0)]}
            /\ finishedRun' = NoRun
            /\ effectPending' = TRUE
    /\ UNCHANGED <<jobDescriptionText, parseRuns, everReady, userOps, response, outcome>>
    /\ UNCHANGED ingestVars

\* App.tsx 433-447 and the loop header: the code after `await Promise.all`, up to
\* the next await or the return
AfterBatch(run, calls) ==
    LET batchCalls == CallsAt(calls, run.i)
        fulfilled == WithStatus(batchCalls, "fulfilled")
        rejected == WithStatus(batchCalls, "rejected")
        doneUpdates ==
            [k \in DOMAIN fulfilled |->
                [id |-> fulfilled[k].id,
                 patch |-> [status |-> "done",
                            candidateName |->
                                AsString(fulfilled[k].promise.value.candidateName)]]]
        successfulResults ==
            [k \in DOMAIN fulfilled |->
                [name |-> AsString(fulfilled[k].promise.value.candidateName),
                 result |-> fulfilled[k].promise.value,
                 id |-> fulfilled[k].id]]
        errorUpdates ==
            [k \in DOMAIN rejected |->
                [id |-> rejected[k].id,
                 patch |-> [status |-> "error", error |-> rejected[k].promise.message]]]
    IN /\ resumes' = ApplyUpdates(resumes, doneUpdates \o errorUpdates)
       /\ analysisResults' = AppendResults(analysisResults, successfulResults)
       /\ effectPending' = TRUE
       /\ IF LoopContinues(run.snap, run.i, batchCalls)
          THEN /\ analyzeRuns' = (analyzeRuns \ {run}) \cup
                     {[run EXCEPT
                         !.i = run.i + BATCH_SIZE,
                         !.calls = calls \o IssueBatch(run.snap, run.jd,
                                                       run.i + BATCH_SIZE)]}
               /\ UNCHANGED <<loading, finishedRun>>
          ELSE /\ analyzeRuns' = analyzeRuns \ {run}
               /\ loading' = FALSE
               /\ finishedRun' = [n |-> Len(run.snap), calls |-> calls, returned |-> TRUE]

\* the j-th call of an invocation settles on `reply`
AnalyzeSettle(run, j, reply) ==
    /\ ~effectPending
    /\ run \in analyzeRuns
    /\ j \in DOMAIN run.calls
    /\ run.calls[j].promise.status = "pending"
    /\ LET calls == [run.calls EXCEPT ![j].promise = analyzeResume(reply)] IN
       IF BatchSettled(CallsAt(calls, run.i))
       THEN AfterBatch(run, calls)
       ELSE /\ analyzeRuns' = (analyzeRuns \ {run}) \cup {[run EXCEPT !.calls = calls]}
            /\ UNCHANGED <<resumes, analysisResults, loading, effectPending, finishedRun>>
    /\ UNCHANGED <<jobDescriptionText, error, parseRuns, everReady, userOps, response, outcome>>
    /\ UNCHANGED ingestVars

(***************************************************************************)
(* Job-description sources, App.tsx 458-479, 560-589 and the job-          *)
(* description card of components/InputCard.tsx.  The effect of App.tsx    *)
(* 587-589 depends on jobDescriptionFile and on handleJdFileRead, which is *)
(* re-created whenever jobDescriptionText changes: it runs after every     *)
(* commit that changed the file handle or the text, and its synchronous    *)
(* part is folded into the action that made the commit.                    *)
(***************************************************************************)
JdTexts == {"", "jd"}

NoFile == [id |-> 0, content |-> ""]

\* what a fetch settles with: a network-level rejection (a TypeError whose message
\* depends on the browser), a response that is not ok, or a response whose blob
\* becomes a File
NetworkErrorMessages == {"Failed to fetch", "Load failed"}
UrlContents == {"a", Corrupt}
FetchReplies ==
    {[kind |-> "network", message |-> m, file |-> NoFile] : m \in NetworkErrorMessages}
        \cup {[kind |-> "status", message |-> "Not Found", file |-> NoFile]}
        \cup {[kind |-> "ok", message |-> "", file |-> f] :
                 f \in [id : FileIds, content : UrlContents]}

\* A PDF document is the token of its bytes together with the MIME type its blob
\* carries: application/pdf, or another one (a server that sends
\* application/octet-stream).  Every other content is plain text.
PdfTyped == "%PDF sent as application/pdf"
PdfUntyped == "%PDF sent as application/octet-stream"
PdfContents == {PdfTyped, PdfUntyped}
PdfText == "text of the pdf"

\* file.type
FileType(file) ==
    IF file.content = PdfTyped THEN "application/pdf"
    ELSE IF file.content = PdfUntyped THEN "application/octet-stream"
    ELSE "text/plain"

\* file names ending in .pdf
PdfNames == {"jd.pdf"}

\* readPdfAsText(file), App.tsx 278-305: the text pdf.js extracts, or a rejection
readPdfAsText(file) ==
    IF file.content \in PdfContents
    THEN [ok |-> TRUE, text |-> PdfText, message |-> ""]
    ELSE [ok |-> FALSE, text |-> "",
          message |-> "Failed to parse PDF: " \o FileName(file) \o ". It might be corrupted."]

\* the read handleJdFileRead makes (App.tsx 465-467): the decoder goes by file.type
readJdFile(file) ==
    IF FileType(file) = "application/pdf" THEN readPdfAsText(file) ELSE readFileAsText(file)

\* isPdf of handleJdUrlAdd (App.tsx 572): by MIME type or by the file name, which is
\* the last piece of the URL
IsPdf(url, file) == FileType(file) = "application/pdf" \/ url[Len(url)] \in PdfNames

\* readBlobAsText(blob, isPdf), App.tsx 307-334
readBlobAsText(file, isPdf) ==
    IF isPdf
    THEN IF file.content \in PdfContents
         THEN [ok |-> TRUE, text |-> PdfText, message |-> ""]
         ELSE [ok |-> FALSE, text |-> "", message |-> "Failed to parse PDF from blob."]
    ELSE IF file.content = Corrupt
         THEN [ok |-> FALSE, text |-> "", message |-> "Error reading blob."]
         ELSE [ok |-> TRUE, text |-> file.content, message |-> ""]

\* responses whose blob is a PDF document
PdfReplies ==
    {[kind |-> "ok", message |-> "", file |-> [id |-> 1, content |-> c]] :
        c \in PdfContents}

CorsMessage == "Could not fetch the URL. This may be due to a CORS policy."

NoFetch == <<>>
NoSurfaced == [handler |-> "none", kind |-> "none", message |-> "", file |-> NoFile]

\* handleJdFileRead(file) up to its await, as the effect calls it after a commit
\* that changed the file handle or the text: the reads in flight afterwards
JdEffectReads(reads, file, changed) ==
    IF changed /\ file # NoFile THEN reads (+) SetToBag({file}) ELSE reads

\* handleJdFileRead(file): setError(null) when there is a file to read
JdEffectError(err, file, changed) ==
    IF changed /\ file # NoFile THEN Null ELSE err

\* the text area of the job-description card: handleJdTextChange, App.tsx 474-479
handleJdTextChange(text) ==
    /\ ~effectPending
    /\ UserInput
    /\ text # jobDescriptionText
    /\ jobDescriptionText' = text
    /\ jobDescriptionFile' = NoFile
    /\ jdTyped' = IF jobDescriptionFile # NoFile THEN TRUE ELSE jdTyped
    /\ UNCHANGED <<resumes, analysisResults, loading, error, effectPending, parseRuns,
                   analyzeRuns, finishedRun, everReady, response, outcome,
                   jdReads, jdFetch, urlRun, surfaced>>

\* a file dropped on or chosen in the job-description card: InputCard.tsx 73-83,
\* onTextChange('') and setFiles([file]), then the effect
handleJdFileChange(file) ==
    /\ ~effectPending
    /\ UserInput
    /\ jobDescriptionText' = ""
    /\ jobDescriptionFile' = file
    /\ jdTyped' = FALSE
    /\ jdReads' = JdEffectReads(jdReads, file, TRUE)
    /\ error' = JdEffectError(error, file, TRUE)
    /\ UNCHANGED <<resumes, analysisResults, loading, effectPending, parseRuns,
                   analyzeRuns, finishedRun, everReady, response, outcome,
                   jdFetch, urlRun, surfaced>>

\* the file's remove button or "Clear all" of the job-description card:
\* InputCard.tsx 143, 186; the effect finds no file
removeJdFile ==
    /\ ~effectPending
    /\ UserInput
    /\ jobDescriptionFile # NoFile
    /\ jobDescriptionFile' = NoFile
    /\ jdTyped' = FALSE
    /\ UNCHANGED <<resumes, jobDescriptionText, analysisResults, loading, error,
                   effectPending, parseRuns, analyzeRuns, finishedRun, everReady,
                   response, outcome, jdReads, jdFetch, urlRun, surfaced>>

\* the read awaited by a handleJdFileRead invocation settles (App.tsx 464-471); a
\* changed text re-creates handleJdFileRead, so the effect runs again on the file
\* handle of that commit
JdReadSettle(file) ==
    /\ ~effectPending
    /\ BagIn(file, jdReads)
    /\ LET read == readJdFile(file)
           rest == jdReads (-) SetToBag({file})
           changed == read.ok /\ read.text # jobDescriptionText
       IN /\ jobDescriptionText' = IF read.ok THEN read.text ELSE jobDescriptionText
          /\ jdReads' = JdEffectReads(rest, jobDescriptionFile, changed)
          /\ error' = IF read.ok THEN JdEffectError(error, jobDescriptionFile, changed)
                      ELSE read.message
    /\ UNCHANGED <<resumes, analysisResults, loading, effectPending, parseRuns,
                   analyzeRuns, finishedRun, everReady, userOps, response, outcome,
                   jobDescriptionFile, jdFetch, jdTyped, urlRun, surfaced>>

\* the Add button of the job-description card: InputCard.tsx 114-132 calls
\* onTextChange('') and handleJdUrlAdd (App.tsx 560-563), which awaits the fetch; the
\* button is disabled while an earlier ingestion of the card is in progress
handleJdUrlAdd(url) ==
    /\ ~effectPending
    /\ UserInput
    /\ jdFetch = NoFetch
    /\ jobDescriptionText' = ""
    /\ jobDescriptionFile' = NoFile
    /\ jdTyped' = FALSE
    /\ error' = Null
    /\ jdFetch' = url
    /\ UNCHANGED <<resumes, analysisResults, loading, effectPending, parseRuns,
                   analyzeRuns, finishedRun, everReady, response, outcome,
                   jdReads, urlRun, surfaced>>

\* the message handleJdUrlAdd surfaces for a fetch that failed (App.tsx 564-566,
\* 578-583)
JdUrlErrorMessage(reply) ==
    IF reply.kind = "status" THEN "Failed to fetch from URL: " \o reply.message \o "."
    ELSE IF reply.message = "Failed to fetch" THEN CorsMessage
    ELSE reply.message

\* the fetch of handleJdUrlAdd settles, and for a response that is ok the blob is
\* read (App.tsx 564-584); then the effect reads the new file
JdFetchSettle(reply) ==
    /\ ~effectPending
    /\ jdFetch # NoFetch
    /\ jdFetch' = NoFetch
    /\ surfaced' = [handler |-> "jd", kind |-> reply.kind, message |-> reply.message,
                     file |-> reply.file]
    /\ LET read == readBlobAsText(reply.file, IsPdf(jdFetch, reply.file)) IN
       IF reply.kind # "ok"
       THEN /\ error' = JdUrlErrorMessage(reply)
            /\ UNCHANGED <<jobDescriptionText, jobDescriptionFile, jdReads, jdTyped>>
       ELSE IF ~read.ok
       THEN /\ error' = read.message
            /\ UNCHANGED <<jobDescriptionText, jobDescriptionFile, jdReads, jdTyped>>
       ELSE /\ jobDescriptionText' = read.text
            /\ jobDescriptionFile' = reply.file
            /\ jdTyped' = FALSE
            /\ jdReads' = JdEffectReads(jdReads, reply.file, TRUE)
            /\ error' = JdEffectError(error, reply.file, TRUE)
    /\ UNCHANGED <<resumes, analysisResults, loading, effectPending, parseRuns,
                   analyzeRuns, finishedRun, everReady, userOps, response, outcome, urlRun>>

(***************************************************************************)
(* Resume URL ingestion, App.tsx 511-558, started by the Add button of the *)
(* resume card (InputCard.tsx 114-132, 236-239).  A URL is the sequence of *)
(* its pieces between slashes.  An invocation keeps the `resumes` array of *)
(* the render it was started in (addResumeFiles of that render reads it),  *)
(* the position k of the URL it is at, which request it awaits, and        *)
(* filesData.  As history it keeps every request it made, the resume_path  *)
(* every successful lookup returned, and what became of each URL.          *)
(***************************************************************************)
MaxUrls == 2         \* URLs in one ingestion

DocUrl == <<"https:", "", "cdn.example", "cv.txt">>
PdfUrl == <<"https:", "", "cdn.example", "jd.pdf">>
PartnerUrl == <<"https:", "", "tigihr.com", "talent", "p7">>
PartnerBareUrl == <<"https:", "", "tigihr.com", "talent", "">>
ResumeUrls == {DocUrl, PartnerUrl, PartnerBareUrl}
UrlLists == UNION {[1..n -> ResumeUrls] : n \in 1..MaxUrls}

LookupUrl ==
    <<"https:", "", "api-v1.tigihr.com", "profile", "getProfileBaseUserDetail">>

RECURSIVE UrlString(_)
\* the URL as the user typed it
UrlString(url) ==
    IF Len(url) = 0 THEN ""
    ELSE IF Len(url) = 1 THEN url[1]
    ELSE url[1] \o "/" \o UrlString(Tail(url))

\* url.startsWith('https://tigihr.com/talent/')
IsPartnerUrl(url) ==
    Len(url) >= 5 /\ SubSeq(url, 1, 4) = <<"https:", "", "tigihr.com", "talent">>

\* url.split('/').filter(p => p).pop()
ProfileId(url) ==
    LET pieces == SelectSeq(url, LAMBDA p : p # "") IN
    IF Len(pieces) = 0 THEN Undefined ELSE pieces[Len(pieces)]

\* resumeUrl.substring(resumeUrl.lastIndexOf('/') + 1).split('?')[0] || 'file_from_url'
FileNameOfUrl(url) ==
    IF url[Len(url)] = "" THEN "file_from_url" ELSE url[Len(url)]

\* a || b on strings
OrElse(a, b) == IF a = Undefined \/ a = "" THEN b ELSE a

\* what the profile lookup settles with: a rejected fetch, a response that is not
\* ok, or the JSON of the profile
LookupReplies ==
    {[kind |-> "network", message |-> "Failed to fetch", isError |-> FALSE,
      resume_path |-> NoFetch, full_name |-> Undefined],
     [kind |-> "status", message |-> "Not Found", isError |-> FALSE,
      resume_path |-> NoFetch, full_name |-> Undefined],
     [kind |-> "json", message |-> "", isError |-> TRUE, resume_path |-> DocUrl,
      full_name |-> "Ann"],
     [kind |-> "json", message |-> "", isError |-> FALSE, resume_path |-> NoFetch,
      full_name |-> "Ann"],
     [kind |-> "json", message |-> "", isError |-> FALSE, resume_path |-> DocUrl,
      full_name |-> "Ann"],
     [kind |-> "json", message |-> "", isError |-> FALSE, resume_path |-> DocUrl,
      full_name |-> Undefined]}

\* what the fetch of a resume document settles with (the text of the document and
\* the browser play no part in the ingestion)
ResumeFetchReplies ==
    {r \in FetchReplies : r.message # "Load failed" /\ r.file.content # Corrupt}

NoUrlRun ==
    [snap |-> <<>>, urls |-> <<>>, k |-> 0, phase |-> "idle", resumeUrl |-> NoFetch,
     name |-> Undefined, filesData |-> <<>>, requests |-> <<>>, lookups |-> <<>>,
     outcomes |-> <<>>]

\* the error a failed lookup throws (App.tsx 529-533), or "" when it succeeded
LookupError(reply) ==
    IF reply.kind = "network" THEN reply.message
    ELSE IF reply.kind = "status" THEN "TigiHR API failed: " \o reply.message
    ELSE IF reply.isError \/ reply.resume_path = NoFetch
         THEN "Could not find resume in TigiHR profile."
         ELSE ""

\* the error a failed document fetch throws (App.tsx 541-542), or ""
FetchError(reply) ==
    IF reply.kind = "network" THEN reply.message
    ELSE IF reply.kind = "status" THEN "Fetch failed: " \o reply.message
    ELSE ""

\* setError(`Failed to fetch ${url}: ${message}`)
UrlsErrorMessage(url, message) == "Failed to fetch " \o UrlString(url) \o ": " \o message

\* break out of the loop at the first URL that fails
StopAtFailure(run) == run.k < Len(run.urls) /\ run.outcomes[run.k].kind = "ok"

\* for (const url of urls): is there a URL after the one at position k
MoreUrls(run) == run.k < Len(run.urls)

\* a request, with (as history) the position of the URL it is made for
Request(kind, url, profileId, k) ==
    [kind |-> kind, url |-> url, profile_id |-> profileId, k |-> k]

\* the request the loop body makes first for the URL at position k (App.tsx
\* 518-541).  The pieces of a URL that starts with the partner prefix include
\* "https:", so profileId is never empty and 'Invalid TigiHR URL.' is never thrown.
BeginUrl(run, k) ==
    LET url == run.urls[k] IN
    IF IsPartnerUrl(url) /\ ProfileId(url) # Undefined
    THEN [run EXCEPT !.k = k, !.phase = "lookup", !.resumeUrl = url, !.name = Undefined,
                     !.requests = @ \o <<Request("lookup", LookupUrl, ProfileId(url),
                                                 k)>>]
    ELSE [run EXCEPT !.k = k, !.phase = "fetch", !.resumeUrl = url, !.name = Undefined,
                     !.requests = @ \o <<Request("fetch", url, Undefined, k)>>]

\* resumeUrl = profileData.data.resume_path, then fetch(resumeUrl) (App.tsx 534-541)
FetchAfterLookup(run, reply) ==
    [run EXCEPT !.phase = "fetch", !.resumeUrl = reply.resume_path,
                !.name = reply.full_name,
                !.requests = @ \o <<Request("fetch", reply.resume_path, Undefined,
                                             run.k)>>]

\* one entry of newResumeFiles for an item { file, name } (App.tsx 485-496)
NewResumeFileFrom(item) ==
    [NewResumeFile(item.file) EXCEPT !.candidateName = OrElse(item.name, FileName(item.file))]

\* addResumeFiles(filesData) of the render the ingestion started in: the records it
\* appends
AddedRecords(snap, filesData) ==
    LET fresh == SelectSeq(filesData, LAMBDA d : ~HasId(snap, d.file.id)) IN
    [j \in DOMAIN fresh |-> NewResumeFileFrom(fresh[j])]

\* the Add button of the resume card, enabled when no ingestion of the card is in
\* progress and no record is queued or parsing; handleUrlsAdd up to its first await
handleUrlsAdd(urls) ==
    /\ ~effectPending
    /\ UserInput
    /\ urlRun.phase = "idle"
    /\ ~isProcessing
    /\ error' = Null
    /\ urlRun' = BeginUrl([NoUrlRun EXCEPT !.snap = resumes, !.urls = urls], 1)
    /\ UNCHANGED <<resumes, jobDescriptionText, analysisResults, loading, effectPending,
                   parseRuns, analyzeRuns, finishedRun, everReady, response, outcome,
                   jobDescriptionFile, jdReads, jdFetch, jdTyped, surfaced>>

\* the loop after the URL at position k: the next URL, or the end of the loop and
\* addResumeFiles (App.tsx 553-557)
AfterUrl(run) ==
    IF MoreUrls(run)
    THEN /\ urlRun' = BeginUrl(run, run.k + 1)
         /\ UNCHANGED <<resumes, effectPending>>
    ELSE /\ urlRun' = NoUrlRun
         /\ IF Len(run.filesData) > 0
            THEN /\ resumes' = resumes \o AddedRecords(run.snap, run.filesData)
                 /\ effectPending' = TRUE
            ELSE UNCHANGED <<resumes, effectPending>>

\* the profile lookup settles (App.tsx 524-535, 549-552)
UrlLookupSettle(reply) ==
    /\ ~effectPending
    /\ urlRun.phase = "lookup"
    /\ surfaced' = [handler |-> "lookup", kind |-> reply.kind, message |-> reply.message,
                     file |-> NoFile]
    /\ IF LookupError(reply) # ""
       THEN /\ error' = UrlsErrorMessage(urlRun.urls[urlRun.k], LookupError(reply))
            /\ AfterUrl([urlRun EXCEPT
                           !.outcomes = @ \o <<[kind |-> "lookup failed", file |-> NoFile]>>])
       ELSE /\ urlRun' = FetchAfterLookup(
                           [urlRun EXCEPT !.lookups = @ \o
                               <<[k |-> urlRun.k, resume_path |-> reply.resume_path]>>],
                           reply)
            /\ UNCHANGED <<error, resumes, effectPending>>
    /\ UNCHANGED <<jobDescriptionText, analysisResults, loading, parseRuns, analyzeRuns,
                   finishedRun, everReady, userOps, response, outcome,
                   jobDescriptionFile, jdReads, jdFetch, jdTyped>>

\* the document fetch settles (App.tsx 541-552)
UrlFetchSettle(reply) ==
    /\ ~effectPending
    /\ urlRun.phase = "fetch"
    /\ surfaced' = [handler |-> "resume", kind |-> reply.kind, message |-> reply.message,
                     file |-> reply.file]
    /\ IF FetchError(reply) # ""
       THEN /\ error' = UrlsErrorMessage(urlRun.urls[urlRun.k], FetchError(reply))
            /\ AfterUrl([urlRun EXCEPT
                           !.outcomes = @ \o <<[kind |-> "fetch failed", file |-> NoFile]>>])
       ELSE /\ AfterUrl([urlRun EXCEPT
                           !.filesData = @ \o
                               <<[file |-> reply.file,
                                  name |-> OrElse(urlRun.name,
                                                  FileNameOfUrl(urlRun.resumeUrl))]>>,
                           !.outcomes = @ \o <<[kind |-> "ok", file |-> reply.file]>>])
            /\ UNCHANGED error
    /\ UNCHANGED <<jobDescriptionText, analysisResults, loading, parseRuns, analyzeRuns,
                   finishedRun, everReady, userOps, response, outcome,
                   jobDescriptionFile, jdReads, jdFetch, jdTyped>>

(***************************************************************************)
(* Specifications.                                                         *)
(***************************************************************************)
\* the application after its first render: nothing uploaded
Init ==
    /\ resumes = <<>>
    /\ jobDescriptionText = ""
    /\ analysisResults = <<>>
    /\ loading = FALSE
    /\ error = Null
    /\ effectPending = FALSE
    /\ parseRuns = EmptyBag
    /\ analyzeRuns = {}
    /\ finishedRun = NoRun
    /\ everReady = {}
    /\ userOps = 0
    /\ jobDescriptionFile = NoFile
    /\ jdReads = EmptyBag
    /\ jdFetch = NoFetch
    /\ jdTyped = FALSE
    /\ urlRun = NoUrlRun
    /\ surfaced = NoSurfaced
    /\ response = NoReply
    /\ outcome = NoOutcome

Next ==
    \/ ParseEffect
    \/ \E run \in BagToSet(parseRuns) : ParseSettle(run)
    \/ \E filesToAdd \in AddInputs : addResumeFiles(filesToAdd)
    \/ \E id \in FileIds : removeResume(id)
    \/ clearResumes
    \/ \E text \in JdTexts : handleJdTextChange(text)
    \/ handleAnalyze
    \/ \E run \in analyzeRuns :
          \E j \in DOMAIN run.calls, reply \in RunReplies : AnalyzeSettle(run, j, reply)

Spec == Init /\ [][Next]_vars

(***************************************************************************)
(* Analyze-only behaviours.  They start where n files, added in one        *)
(* addResumeFiles call, have all been parsed to ready with distinct texts  *)
(* and the job description is typed in.  The first processBatch invocation *)
(* of that add (closure: all n queued) may still await its last read: the  *)
(* invocations started by the later commits have read the same file and    *)
(* set the record ready meanwhile.                                         *)
(***************************************************************************)
ParsedFile(id) == [id |-> id, content |-> "text" \o ToString(id)]

ReadyResumes(n) ==
    [k \in 1..n |->
        [NewResumeFile(ParsedFile(k)) EXCEPT !.status = "ready", !.text = ParsedFile(k).content]]

QueuedResumes(n) == [k \in 1..n |-> NewResumeFile(ParsedFile(k))]

\* one record, one full batch, one batch and one record, and the most
ReadyCounts == {1, BATCH_SIZE, BATCH_SIZE + 1, MaxReady}

\* the file added last is unreadable: its record is in error, never ready
FailedResume(n) ==
    LET file == [id |-> n + 1, content |-> Corrupt] IN
    [NewResumeFile(file) EXCEPT !.status = "error", !.error = readFileAsText(file).message]

LateParseRun(n) == [snap |-> QueuedResumes(n), i |-> Min(BATCH_SIZE, n)]

InitRun ==
    /\ \E n \in ReadyCounts :
          /\ everReady = 1..n
          /\ \/ resumes = ReadyResumes(n) /\ parseRuns = EmptyBag
             \/ resumes = ReadyResumes(n) \o <<FailedResume(n)>> /\ parseRuns = EmptyBag
             \/ n >= 2 /\ resumes = ReadyResumes(n)
                       /\ parseRuns = SetToBag({LateParseRun(n)})
    /\ jobDescriptionText = "jd"
    /\ analysisResults = <<>>
    /\ loading = FALSE
    /\ error = Null
    /\ effectPending = FALSE
    /\ analyzeRuns = {}
    /\ finishedRun = NoRun
    /\ userOps = 0
    /\ jobDescriptionFile = NoFile
    /\ jdReads = EmptyBag
    /\ jdFetch = NoFetch
    /\ jdTyped = FALSE
    /\ urlRun = NoUrlRun
    /\ surfaced = NoSurfaced
    /\ response = NoReply
    /\ outcome = NoOutcome

NextRun ==
    \/ ParseEffect
    \/ \E run \in BagToSet(parseRuns) : ParseSettle(run)
    \/ handleAnalyze
    \/ \E run \in analyzeRuns :
          \E j \in DOMAIN run.calls, reply \in RunReplies : AnalyzeSettle(run, j, reply)

SpecRun == InitRun /\ [][NextRun]_vars

(***************************************************************************)
(* The analysis client alone: one reply of the remote model, validated by  *)
(* either version of analyzeResume.                                        *)
(***************************************************************************)
InitClient ==
    /\ response \in Replies
    /\ outcome = NoOutcome
    /\ resumes = <<>>
    /\ jobDescriptionText = ""
    /\ analysisResults = <<>>
    /\ loading = FALSE
    /\ error = Null
    /\ effectPending = FALSE
    /\ parseRuns = EmptyBag
    /\ analyzeRuns = {}
    /\ finishedRun = NoRun
    /\ everReady = {}
    /\ userOps = 0
    /\ jobDescriptionFile = NoFile
    /\ jdReads = EmptyBag
    /\ jdFetch = NoFetch
    /\ jdTyped = FALSE
    /\ urlRun = NoUrlRun
    /\ surfaced = NoSurfaced

NextClient ==
    \/ CallAnalyzeResume
    \/ CallAnalyzeResumeService

SpecClient == InitClient /\ [][NextClient]_vars

(***************************************************************************)
(* The job-description card alone: text area, file, URL.                   *)
(***************************************************************************)
JdUrls == {DocUrl, PdfUrl}

NextJd ==
    \/ \E text \in JdTexts : handleJdTextChange(text)
    \/ \E file \in Files : handleJdFileChange(file)
    \/ removeJdFile
    \/ \E file \in BagToSet(jdReads) : JdReadSettle(file)
    \/ \E url \in JdUrls : handleJdUrlAdd(url)
    \/ \E reply \in FetchReplies \cup PdfReplies : JdFetchSettle(reply)

SpecJd == Init /\ [][NextJd]_vars

(***************************************************************************)
(* The resume card under URL ingestion, up to the point where the records  *)
(* it added are handed to the parsing effect.                              *)
(***************************************************************************)
\* the resume card when the ingestion starts: empty, or holding records parsed
\* earlier
InitUrl ==
    /\ \E n \in 0..MaxFiles :
          /\ resumes = [k \in 1..n |->
                           [NewResumeFile([id |-> k, content |-> "b"]) EXCEPT
                               !.status = "ready", !.text = "b" \o ToString(k)]]
          /\ everReady = 1..n
    /\ jobDescriptionText = ""
    /\ analysisResults = <<>>
    /\ loading = FALSE
    /\ error = Null
    /\ effectPending = FALSE
    /\ parseRuns = EmptyBag
    /\ analyzeRuns = {}
    /\ finishedRun = NoRun
    /\ userOps = 0
    /\ jobDescriptionFile = NoFile
    /\ jdReads = EmptyBag
    /\ jdFetch = NoFetch
    /\ jdTyped = FALSE
    /\ urlRun = NoUrlRun
    /\ surfaced = NoSurfaced
    /\ response = NoReply
    /\ outcome = NoOutcome

NextUrl ==
    \/ \E urls \in UrlLists : handleUrlsAdd(urls)
    \/ \E reply \in LookupReplies : UrlLookupSettle(reply)
    \/ \E reply \in ResumeFetchReplies : UrlFetchSettle(reply)
    \/ ParseEffect

SpecUrl == InitUrl /\ [][NextUrl]_vars

(***************************************************************************)
(* An analyze run with the user acting meanwhile: records are removed, the *)
(* batch is cleared and the job description is edited while calls are in   *)
(* flight.  Calls settle in any order.  Every call settles (weak fairness of the settling of pending   *)
(* calls), and React runs the effect after every commit (weak fairness of  *)
(* ParseEffect).                                                           *)
(***************************************************************************)
\* one record, and one batch and one record
LiveCounts == {1, BATCH_SIZE + 1}

\* the reply of the remote model is a function of the resume it is asked about: the
\* calls for every second record fail
LiveReply(id) == IF id % 2 = 0 THEN NoReply ELSE GoodReply

InitLive ==
    /\ \E n \in LiveCounts :
          /\ everReady = 1..n
          /\ resumes = ReadyResumes(n)
    /\ parseRuns = EmptyBag
    /\ jobDescriptionText = "jd"
    /\ analysisResults = <<>>
    /\ loading = FALSE
    /\ error = Null
    /\ effectPending = FALSE
    /\ analyzeRuns = {}
    /\ finishedRun = NoRun
    /\ userOps = 0
    /\ jobDescriptionFile = NoFile
    /\ jdReads = EmptyBag
    /\ jdFetch = NoFetch
    /\ jdTyped = FALSE
    /\ urlRun = NoUrlRun
    /\ surfaced = NoSurfaced
    /\ response = NoReply
    /\ outcome = NoOutcome

SettleSomeCall ==
    \E run \in analyzeRuns :
        \E j \in DOMAIN run.calls : AnalyzeSettle(run, j, LiveReply(run.calls[j].id))

NextLive ==
    \/ ParseEffect
    \/ handleAnalyze
    \/ SettleSomeCall
    \/ \E id \in FileIds : removeResume(id)
    \/ clearResumes
    \/ \E text \in JdTexts : handleJdTextChange(text)

SpecLive ==
    /\ InitLive
    /\ [][NextLive]_vars
    /\ WF_vars(ParseEffect)
    /\ WF_vars(SettleSomeCall)

(***************************************************************************)
(* Properties.                                                             *)
(***************************************************************************)
\* every handleAnalyze invocation: the suspended ones and the last one returned
AllRuns ==
    {[n |-> Len(run.snap), calls |-> run.calls, returned |-> FALSE] : run \in analyzeRuns}
        \cup {finishedRun}

CallsFor(calls, p) == {j \in DOMAIN calls : calls[j].position = p}
PendingCalls(calls) == {j \in DOMAIN calls : calls[j].promise.status = "pending"}
RejectedCalls(calls) == {j \in DOMAIN calls : calls[j].promise.status = "rejected"}
FulfilledCalls(calls) == {j \in DOMAIN calls : calls[j].promise.status = "fulfilled"}
WithStatusIn(statuses) == {k \in DOMAIN resumes : resumes[k].status \in statuses}
ResultsFor(results, id) == {j \in DOMAIN results : results[j].id = id}
IsPrefix(s, t) == Len(s) <= Len(t) /\ SubSeq(t, 1, Len(s)) = s

LifecycleEdges ==
    {<<"queued", "parsing">>, <<"parsing", "ready">>, <<"parsing", "error">>,
     <<"ready", "analyzing">>, <<"analyzing", "done">>, <<"analyzing", "error">>}

\* C1: in every step that removes no record, the status of each record stays as it
\* is or moves along one edge of the lifecycle graph queued -> parsing ->
\* {ready | error}, ready -> analyzing -> {done | error}; done and error have no
\* outgoing edge.
C1_StatusFollowsLifecycle ==
    [][Len(resumes') >= Len(resumes) =>
          \A k \in DOMAIN resumes :
              \/ resumes'[k].status = resumes[k].status
              \/ <<resumes[k].status, resumes'[k].status>> \in LifecycleEdges]_vars

\* all parsing and analysis work has settled after an analyze run
Settled ==
    /\ finishedRun.returned
    /\ analyzeRuns = {}
    /\ parseRuns = EmptyBag
    /\ ~effectPending
    /\ WithStatusIn({"queued", "parsing", "analyzing"}) = {}

C3_OneCallPerReadyRecord ==
    \A run \in AllRuns :
        /\ \A j \in DOMAIN run.calls : run.calls[j].position \in 1..run.n
        /\ \A p \in 1..run.n : Cardinality(CallsFor(run.calls, p)) <= 1
        /\ run.returned => \A p \in 1..run.n : Cardinality(CallsFor(run.calls, p)) = 1

C3_Witness ==
    /\ finishedRun.returned
    /\ finishedRun.n > BATCH_SIZE
    /\ \E j \in RejectedCalls(finishedRun.calls) : finishedRun.calls[j].offset = 0
    /\ \E j \in FulfilledCalls(finishedRun.calls) : finishedRun.calls[j].offset > 0

\* C4: the calls of a run are made in record order, in consecutive batches of
\* BATCH_SIZE records (the last one shorter); a call of a later batch exists only
\* when every call of the earlier batches has settled, so at most BATCH_SIZE calls
\* are outstanding; a returned run has made ceil(n / BATCH_SIZE) batches.
C4_BatchesOfFiveInOrder ==
    /\ Cardinality(analyzeRuns) <= 1
    /\ \A run \in AllRuns :
        /\ \A j \in DOMAIN run.calls :
              /\ run.calls[j].position = j
              /\ run.calls[j].offset = BATCH_SIZE * ((j - 1) \div BATCH_SIZE)
        /\ Cardinality(PendingCalls(run.calls)) <= BATCH_SIZE
        /\ \A j \in PendingCalls(run.calls), l \in DOMAIN run.calls :
              run.calls[l].offset <= run.calls[j].offset
        /\ run.returned =>
              /\ Len(run.calls) = run.n
              /\ Cardinality({run.calls[j].offset : j \in DOMAIN run.calls})
                    = (run.n + BATCH_SIZE - 1) \div BATCH_SIZE

C4_Witness ==
    \E run \in analyzeRuns :
        /\ Len(run.snap) > 2 * BATCH_SIZE
        /\ run.i = 2 * BATCH_SIZE
        /\ PendingCalls(run.calls) # {}

\* the ids of the records whose call, in a batch before offset i, was fulfilled
FulfilledBefore(run, i) ==
    LET earlier == SelectSeq(run.calls,
                       LAMBDA c : c.offset < i /\ c.promise.status = "fulfilled")
    IN [k \in DOMAIN earlier |-> earlier[k].id]

ResultIds == [j \in DOMAIN analysisResults |-> analysisResults[j].id]

\* C5: while a run awaits the batch at offset i, the result list holds exactly the
\* results of the fulfilled calls of the batches before i; and from one state of a
\* run to the next the result list only grows at its end.
C5_ResultsAfterEachBatch ==
    /\ [](\A run \in analyzeRuns : ResultIds = FulfilledBefore(run, run.i))
    /\ [][loading /\ loading' => IsPrefix(analysisResults, analysisResults')]_vars

C5_Witness ==
    \E run \in analyzeRuns :
        /\ run.i = 2 * BATCH_SIZE
        /\ PendingCalls(run.calls) # {}
        /\ Len(analysisResults) > 0
        /\ \E j \in RejectedCalls(run.calls) : run.calls[j].offset = BATCH_SIZE

\* C6: no two records with different ids hold the same non-empty extracted text
\* (a record holds its text from the moment it is set to ready): of two files with
\* identical text, the one parsed second is never ready.
C6_DuplicateTextNeverReady ==
    \A k, l \in DOMAIN resumes :
        (resumes[k].id # resumes[l].id /\ resumes[k].text # "")
            => resumes[k].text # resumes[l].text

\* C7: analyzeResume returns no result for a reply without redFlags or with a
\* recommendation other than 'Strong Hire', 'Consider', 'Reject'.
C7_NoResultWithoutRedFlagsOrRecommendation ==
    outcome.result.status = "fulfilled" =>
        /\ response.body.redFlags.type # "undefined"
        /\ Includes({"Strong Hire", "Consider", "Reject"}, response.body.recommendation)

\* a sequence whose every element is a string
IsStringArray(v) == IsArray(v) /\ \A k \in DOMAIN v.items : v.items[k] = "string"

\* C8: analyzeResume (src/unnamed/part_001) returns no result for a reply in which
\* pros, cons, redFlags or interviewQuestions is not a sequence of strings, or
\* summary or finalVerdict is not a string.
C8_NoResultWithShapeViolation ==
    (outcome.version = "part_001" /\ outcome.result.status = "fulfilled") =>
        /\ IsStringArray(response.body.pros)
        /\ IsStringArray(response.body.cons)
        /\ IsStringArray(response.body.redFlags)
        /\ IsStringArray(response.body.interviewQuestions)
        /\ response.body.summary.type = "string"
        /\ response.body.finalVerdict.type = "string"

\* C9: in the step in which an analyze run returns, no record is removed, and every
\* record whose call was rejected is in status error with the rejection's message
\* and has no entry in the result list.
C9_FailedRecordEndsInError ==
    [][(~finishedRun.returned /\ finishedRun'.returned) =>
          /\ Len(resumes') = Len(resumes)
          /\ \A j \in RejectedCalls(finishedRun'.calls) :
                LET call == finishedRun'.calls[j] IN
                /\ ResultsFor(analysisResults', call.id) = {}
                /\ \A k \in DOMAIN resumes' :
                      resumes'[k].id = call.id =>
                          /\ resumes'[k].status = "error"
                          /\ resumes'[k].error = call.promise.message]_vars

\* C10: whenever no analyze run is in progress, the result list holds exactly one
\* result for each record in status done and none for any other record or for a
\* record that is no longer in the record set.
C10_ResultsMatchDoneRecords ==
    ~loading =>
        /\ \A k \in WithStatusIn({"done"}) :
              Cardinality(ResultsFor(analysisResults, resumes[k].id)) = 1
        /\ \A j \in DOMAIN analysisResults :
              \E k \in WithStatusIn({"done"}) : resumes[k].id = analysisResults[j].id

(***************************************************************************)
(* The parsing stage alone, from the commit of an add on: one record, and  *)
(* more records than one batch takes, every second of them unreadable.     *)
(* React runs the effect after every commit (weak fairness of ParseEffect) *)
(* and every file read settles (weak fairness of the settling of reads).   *)
(***************************************************************************)
ParseCounts == {1, BATCH_SIZE + 1}

AddedFile(k) == IF k % 2 = 0 THEN [id |-> k, content |-> Corrupt] ELSE ParsedFile(k)

\* resumes right after addResumeFiles of n files
JustAdded(n) == [k \in 1..n |-> NewResumeFile(AddedFile(k))]

InitParse ==
    /\ \E n \in ParseCounts : resumes = JustAdded(n)
    /\ everReady = {}
    /\ parseRuns = EmptyBag
    /\ jobDescriptionText = ""
    /\ analysisResults = <<>>
    /\ loading = FALSE
    /\ error = Null
    /\ effectPending = TRUE
    /\ analyzeRuns = {}
    /\ finishedRun = NoRun
    /\ userOps = 0
    /\ jobDescriptionFile = NoFile
    /\ jdReads = EmptyBag
    /\ jdFetch = NoFetch
    /\ jdTyped = FALSE
    /\ urlRun = NoUrlRun
    /\ surfaced = NoSurfaced
    /\ response = NoReply
    /\ outcome = NoOutcome

SettleSomeRead == \E run \in BagToSet(parseRuns) : ParseSettle(run)

NextParse ==
    \/ ParseEffect
    \/ SettleSomeRead

SpecParse ==
    /\ InitParse
    /\ [][NextParse]_vars
    /\ WF_vars(ParseEffect)
    /\ WF_vars(SettleSomeRead)

(***************************************************************************)
(* An analyze run during which the user also adds a file, which is parsed  *)
(* while the run goes on.                                                  *)
(***************************************************************************)
\* a file that is not in the record set yet
LateFile == ParsedFile(BATCH_SIZE + 2)

NextEdit ==
    \/ NextLive
    \/ addResumeFiles(<<LateFile>>)
    \/ SettleSomeRead

SpecEdit == InitLive /\ [][NextEdit]_vars

(***************************************************************************)
(* Removal with work in flight.  Three files were added together, the      *)
(* effect has started a processBatch after each of its commits, and the    *)
(* user has just removed the first record while all reads are pending.     *)
(* From there on the reads settle, the user removes, clears and adds the   *)
(* same files again, and the records are analyzed.                         *)
(***************************************************************************)
RemoveCount == 3

\* resumes as the j-th effect run after the add found them: the first j - 1 records
\* are parsing already
SnapAt(j) ==
    [k \in 1..RemoveCount |->
        IF k < j THEN [JustAdded(RemoveCount)[k] EXCEPT !.status = "parsing"]
        ELSE JustAdded(RemoveCount)[k]]

InitRemove ==
    /\ resumes = SelectSeq(SnapAt(RemoveCount + 1), LAMBDA r : r.id # 1)
    /\ parseRuns = SetToBag({[snap |-> SnapAt(j), i |-> 1] : j \in 1..RemoveCount})
    /\ everReady = {}
    /\ jobDescriptionText = "jd"
    /\ analysisResults = <<>>
    /\ loading = FALSE
    /\ error = Null
    /\ effectPending = TRUE
    /\ analyzeRuns = {}
    /\ finishedRun = NoRun
    /\ userOps = 1
    /\ jobDescriptionFile = NoFile
    /\ jdReads = EmptyBag
    /\ jdFetch = NoFetch
    /\ jdTyped = FALSE
    /\ urlRun = NoUrlRun
    /\ surfaced = NoSurfaced
    /\ response = NoReply
    /\ outcome = NoOutcome

NextRemove ==
    \/ ParseEffect
    \/ SettleSomeRead
    \/ handleAnalyze
    \/ SettleSomeCall
    \/ \E id \in FileIds : removeResume(id)
    \/ clearResumes
    \/ \E k \in 1..RemoveCount : addResumeFiles(<<AddedFile(k)>>)

SpecRemove == InitRemove /\ [][NextRemove]_vars

(***************************************************************************)
(* Properties of the input sources.                                        *)
(***************************************************************************)
\* the texts a readable file yields
FileTexts == {f.content : f \in Files} \ {Corrupt}

\* C11: the job-description text is never text extracted from a file while the file
\* handle is absent because the user typed, also when a file read completes after
\* the user has typed.
C11_TypedTextIsAuthoritative ==
    ~(jobDescriptionFile = NoFile /\ jdTyped /\ jobDescriptionText \in FileTexts)

\* C12: at most one file read of the parsing stage is in flight, over all runs of
\* the parsing effect.
C12_OneExtractionInFlight == BagCardinality(parseRuns) <= 1

\* C13: the display names attached to the results are pairwise distinct.
C13_ResultNamesDistinct ==
    \A i, j \in DOMAIN analysisResults :
        i # j => analysisResults[i].name # analysisResults[j].name

\* C14: a record whose analysis brought no candidate name keeps its filename as
\* display name (and is done, not in error, and still present).
C14_NameFallsBackToFilename ==
    \A j \in DOMAIN analysisResults, k \in DOMAIN resumes :
        (resumes[k].id = analysisResults[j].id /\ resumes[k].status = "done"
            /\ analysisResults[j].result.candidateName.type # "string")
        => resumes[k].candidateName = FileName(resumes[k].file)

\* the step in which an ingestion of the resume card ends
UrlRunEnds == urlRun.phase # "idle" /\ urlRun'.phase = "idle"

\* what became of every URL of the ingestion that ends in this step
AllOutcomes ==
    urlRun.outcomes \o
        <<IF surfaced'.handler = "resume" /\ surfaced'.kind = "ok"
          THEN [kind |-> "ok", file |-> surfaced'.file]
          ELSE [kind |-> "failed", file |-> NoFile]>>

\* the files of the URLs whose fetch succeeded, in URL order
OkFiles ==
    LET ok == SelectSeq(AllOutcomes, LAMBDA o : o.kind = "ok") IN
    [j \in DOMAIN ok |-> ok[j].file]

\* the step appends exactly one queued record for each of `files`, in order
AppendsQueued(files) ==
    /\ Len(resumes') = Len(resumes) + Len(files)
    /\ SubSeq(resumes', 1, Len(resumes)) = resumes
    /\ \A j \in DOMAIN files :
          /\ resumes'[Len(resumes) + j].id = files[j].id
          /\ resumes'[Len(resumes) + j].status = "queued"

\* C15 as claimed: an ingestion goes through every URL of its list, and when it ends
\* one queued record is added for every URL whose fetch succeeded and none for the
\* others.
C15_EverySuccessfulUrlYieldsRecord ==
    [][UrlRunEnds =>
          /\ Len(AllOutcomes) = Len(urlRun.urls)
          /\ AppendsQueued(OkFiles)]_vars

\* C15 as amended: ... one queued record is added for every URL whose fetch
\* succeeded, unless a record with the identity of the fetched file was in the record
\* set when the ingestion started, and none for the others.
C15_EverySuccessfulNewUrlYieldsRecord ==
    [][UrlRunEnds =>
          /\ Len(AllOutcomes) = Len(urlRun.urls)
          /\ AppendsQueued(SelectSeq(OkFiles,
                               LAMBDA f : ~HasId(urlRun.snap, f.id)))]_vars

C15_Witness ==
    /\ urlRun.phase = "idle"
    /\ effectPending
    /\ error # Null
    /\ surfaced.handler = "resume" /\ surfaced.kind = "ok"
    /\ Len(resumes) > 0
    /\ resumes[Len(resumes)].status = "queued"
    /\ resumes[Len(resumes)].id = surfaced.file.id

\* the messages that mention a CORS policy
CorsMessages == {CorsMessage} \cup {UrlsErrorMessage(u, CorsMessage) : u \in ResumeUrls}

\* C16: when the fetch of a resume URL or of a job-description URL is rejected at
\* network level, the error shown mentions a possible CORS policy block.
C16_NetworkFailureMentionsCors ==
    [][(/\ \/ urlRun.phase # "idle" /\ urlRun' # urlRun
           \/ jdFetch # NoFetch /\ jdFetch' = NoFetch
        /\ surfaced'.handler \in {"resume", "jd"}
        /\ surfaced'.kind = "network")
       => error' \in CorsMessages]_vars

\* the part of a partner URL after https://tigihr.com/talent/ names a profile
HasProfileId(url) ==
    Len(SelectSeq(SubSeq(url, 5, Len(url)), LAMBDA p : p # "")) > 0

\* C17: for a partner URL every document fetch comes after the lookup and asks for
\* the resume_path the lookup returned; after a lookup that failed, or for a URL
\* without profile id, no document is fetched and no file is kept for the URL.
C17_LookupBeforeFetch ==
    urlRun.phase # "idle" =>
        \A k \in 1..urlRun.k :
            IsPartnerUrl(urlRun.urls[k]) =>
                LET fetches == {j \in DOMAIN urlRun.requests :
                                   urlRun.requests[j].k = k
                                       /\ urlRun.requests[j].kind = "fetch"}
                    lookups == {j \in DOMAIN urlRun.requests :
                                   urlRun.requests[j].k = k
                                       /\ urlRun.requests[j].kind = "lookup"}
                    failed == k \in DOMAIN urlRun.outcomes
                                 /\ urlRun.outcomes[k].kind = "lookup failed"
                IN /\ \A j \in fetches :
                         /\ \E l \in lookups : l < j
                         /\ \E a \in DOMAIN urlRun.lookups :
                               /\ urlRun.lookups[a].k = k
                               /\ urlRun.lookups[a].resume_path = urlRun.requests[j].url
                   /\ (failed \/ ~HasProfileId(urlRun.urls[k])) =>
                         /\ fetches = {}
                         /\ k \in DOMAIN urlRun.outcomes => urlRun.outcomes[k].kind # "ok"
                   /\ Len(urlRun.filesData)
                         = Cardinality({o \in DOMAIN urlRun.outcomes :
                                           urlRun.outcomes[o].kind = "ok"})

\* C18: no two records of the record set have the same identity.
C18_IdentitiesDistinct ==
    \A i, j \in DOMAIN resumes : i # j => resumes[i].id # resumes[j].id

\* C19: the relevancyScore of every result analyzeResume returns is a number in
\* 0..100.
C19_ScoreInRange ==
    outcome.result.status = "fulfilled" =>
        /\ outcome.result.value.relevancyScore.type = "number"
        /\ outcome.result.value.relevancyScore.num \in 0..100

\* C20: every analyze run finishes, whatever the user does meanwhile, and when it
\* finishes no record is left in status analyzing.
C20_RunFinishes ==
    /\ loading ~> ~loading
    /\ [][loading /\ ~loading' => WithStatusIn({"analyzing"})' = {}]_vars

C20_Witness ==
    /\ ~loading
    /\ finishedRun.returned
    /\ finishedRun.n > BATCH_SIZE
    /\ 0 < Len(resumes) /\ Len(resumes) < finishedRun.n
    /\ jobDescriptionText = ""
    /\ WithStatusIn({"error"}) # {}

\* C21: every record added in status queued eventually reaches ready or error and
\* stays there, also with more records than one batch takes and with reads that fail:
\* eventually no record is queued or parsing.
C21_ParsingTerminates ==
    <>[](/\ Len(resumes) > 0
         /\ \A k \in DOMAIN resumes : resumes[k].status \in {"ready", "error"})

C21_Witness ==
    /\ Len(resumes) > BATCH_SIZE
    /\ parseRuns = EmptyBag
    /\ ~effectPending
    /\ ~isProcessing
    /\ WithStatusIn({"error"}) # {}
    /\ WithStatusIn({"ready"}) # {}

\* C22: the results of a returned run are those of its fulfilled calls, in the order
\* of the records in the ready snapshot, whatever the order in which the calls of a
\* batch settled.
C22_ResultsInSnapshotOrder ==
    finishedRun.returned =>
        LET fulfilled == SelectSeq(finishedRun.calls,
                             LAMBDA c : c.promise.status = "fulfilled")
        IN /\ ResultIds = [k \in DOMAIN fulfilled |-> fulfilled[k].id]
           /\ \A k, l \in DOMAIN fulfilled :
                 k < l => fulfilled[k].position < fulfilled[l].position

C22_Witness ==
    /\ finishedRun.returned
    /\ finishedRun.n > 2 * BATCH_SIZE
    /\ Len(analysisResults) >= 3
    /\ \E j, k, l \in DOMAIN finishedRun.calls :
          /\ j < k /\ k < l
          /\ finishedRun.calls[j].promise.status = "fulfilled"
          /\ finishedRun.calls[k].promise.status = "rejected"
          /\ finishedRun.calls[l].promise.status = "fulfilled"
          /\ finishedRun.calls[j].offset = 0
          /\ finishedRun.calls[l].offset = BATCH_SIZE

\* C23: a record carries an error message exactly when its status is error, and the
\* message of a record in error is not empty.
C23_ErrorMessageIffError ==
    \A k \in DOMAIN resumes :
        /\ resumes[k].status = "error" <=> resumes[k].error # Undefined
        /\ resumes[k].status = "error" => resumes[k].error # ""

\* the identities of the records the step changes
ChangedIds == {resumes[k].id : k \in {j \in DOMAIN resumes : resumes'[j] # resumes[j]}}

\* the identities of the record whose read a processBatch invocation awaits and of
\* the record it goes on to
ParseWorkIds(run) ==
    {ParseBatch(run.snap)[j].id :
        j \in {run.i, run.i + 1} \cap DOMAIN ParseBatch(run.snap)}

\* C24: a step that is not an input of the user keeps the records of the record set,
\* their order and their files (no removed record comes back), and the settling of
\* a read or of an analysis call changes no record other than those the invocation
\* works on: for a record that was removed it changes none.
C24_RemovedRecordStaysRemoved ==
    [][userOps' = userOps =>
          /\ Len(resumes') = Len(resumes)
          /\ \A k \in DOMAIN resumes :
                resumes'[k].id = resumes[k].id /\ resumes'[k].file = resumes[k].file
          /\ \A run \in BagToSet(parseRuns) :
                ParseSettle(run) => ChangedIds \subseteq ParseWorkIds(run)
          /\ \A run \in analyzeRuns :
                (\E j \in DOMAIN run.calls : AnalyzeSettle(run, j, LiveReply(run.calls[j].id)))
                => ChangedIds \subseteq
                       {run.snap[p].id : p \in DOMAIN run.snap} \cap IdsOf(resumes)]_vars

C24_Witness ==
    /\ userOps = 1
    /\ ~HasId(resumes, 1)
    /\ \E run \in BagToSet(parseRuns) : run.snap = SnapAt(1) /\ run.i = 2
    /\ \E k \in DOMAIN resumes : resumes[k].id = 3 /\ resumes[k].status = "ready"

\* C25: a record is set to parsing, and the read of its file started, only from
\* status queued.
C25_ExtractedAtMostOnce ==
    [][\A k \in DOMAIN resumes :
          (k \in DOMAIN resumes' /\ resumes'[k].id = resumes[k].id
              /\ resumes'[k].status = "parsing" /\ resumes[k].status # "parsing")
          => resumes[k].status = "queued"]_vars

\* C26: at most one analyze run is in progress; while one is, loading is true and
\* the analyze control is disabled, no other run starts and the result list is not
\* cleared.
C26_OneRunAtATime ==
    /\ [](/\ Cardinality(analyzeRuns) <= 1
          /\ analyzeRuns # {} => loading /\ ~canAnalyze)
    /\ [][loading =>
             /\ \A new \in analyzeRuns' : \E run \in analyzeRuns : new.snap = run.snap
             /\ IsPrefix(analysisResults, analysisResults')]_vars

C26_Witness ==
    /\ loading
    /\ analyzeRuns # {}
    /\ WithStatusIn({"ready"}) # {}
    /\ WithStatusIn({"analyzing"}) # {}
    /\ jobDescriptionText # ""
    /\ ~isProcessing
    /\ ~effectPending

\* C27: when the analyze control is enabled, invoking analyze starts a run that
\* issues at least one analysis call, and does not end in the error that asks for a
\* resume and a job description.
C27_EnabledAnalyzeStartsRun ==
    [][handleAnalyze =>
          /\ loading'
          /\ \E run \in analyzeRuns' : Len(run.calls) >= 1
          /\ error' = Null]_vars

\* C28: every call of a run carries the job-description text and the resume text of
\* its record as they were when the run started; the run keeps its job description
\* and its records while the user edits the job description and adds records.
C28_RunUsesInputsOfItsStart ==
    /\ [](\A run \in analyzeRuns :
             \A j \in DOMAIN run.calls :
                 /\ run.calls[j].position \in DOMAIN run.snap
                 /\ run.calls[j].jobDescription = run.jd
                 /\ run.calls[j].resume = run.snap[run.calls[j].position].text
                 /\ run.calls[j].id = run.snap[run.calls[j].position].id)
    /\ [][\A new \in analyzeRuns' :
             IF analyzeRuns = {}
             THEN new.jd = jobDescriptionText /\ new.snap = resumesToAnalyze(resumes)
             ELSE \E run \in analyzeRuns : new.jd = run.jd /\ new.snap = run.snap]_vars

C28_Witness ==
    \E run \in analyzeRuns :
        /\ run.i = BATCH_SIZE
        /\ jobDescriptionText # run.jd
        /\ HasId(resumes, LateFile.id)
        /\ \E j \in PendingCalls(run.calls) :
              run.calls[j].offset = BATCH_SIZE /\ run.calls[j].jobDescription = "jd"

\* C29: while the job-description file is a PDF document and the text is the text
\* extracted from it, no step other than an input of the user replaces the text: the
\* read the effect starts for the stored file yields the same text.
C29_PdfTextIsKept ==
    [][(/\ jobDescriptionFile # NoFile
        /\ jobDescriptionFile.content \in PdfContents
        /\ jobDescriptionText = PdfText
        /\ userOps' = userOps)
       => jobDescriptionText' = PdfText]_vars

\* C30: when the user removes the job-description file (its remove button or
\* "Clear all") while the job-description text is the text extracted from that file,
\* the text is empty afterwards.
C30_RemovedFileClearsText ==
    [][(/\ jobDescriptionFile # NoFile
        /\ jobDescriptionFile' = NoFile
        /\ ~jdTyped'
        /\ readJdFile(jobDescriptionFile).ok
        /\ jobDescriptionText = readJdFile(jobDescriptionFile).text)
       => jobDescriptionText' = ""]_vars

====
